---------------------------- MODULE Spec2Model ----------------------------
(***************************************************************************)
(* A model of ephemeris.py (padorange/ephemeris): the MoonPhase and        *)
(* SunPhase classifiers, the JulianDay converter, the SolarPosition        *)
(* declination, the SolarDiagram geometry, Ephemeris.calc and main.        *)
(*                                                                         *)
(* Each class of the program is a group of variables holding one object    *)
(* of the class and the values its methods last returned.  Each class has  *)
(* a specification of its own (SpecMoon, SpecSun, ...): its Init draws    *)
(* the constructor's arguments from bounded sets and its actions are the   *)
(* methods.  The variables of the other classes stay idle.                 *)
(***************************************************************************)
EXTENDS Integers, Sequences, FiniteSets, TLC

VARIABLES
    phase,          \* MoonPhase.phase
    moonName,       \* what MoonPhase.getName last returned
    moonPicture,    \* what MoonPhase.getPicture last returned
    elevation,      \* SunPhase.elevation, in 1/ElevScale degree
    sunName,        \* what SunPhase.getName last returned
    sunColor,       \* what SunPhase.getColor last returned
    date,           \* the datetime handed to JulianDay.setDate
    jd,             \* the JulianDay object: its fields
    jdRet,          \* what JulianDay.getDate last did
    phi_degrees,    \* SolarDiagram.phi_degrees, in whole degrees
    geoD,           \* the declination D handed to calcul_*, whole degrees
    geoH,           \* the hour angle H handed to calcul_*, whole degrees
    hauteur,        \* what calcul_hauteur last did
    azimut,         \* what calcul_azimut last did
    spDate,         \* SolarPosition.date
    declinaison,    \* what getDeclinaison last returned, in 1/1000 degree
    almanac,        \* what the astral library answers for the location
    eph,            \* the fields of the Ephemeris object
    ephResult,      \* how Ephemeris.calc last ended
    ephArg,         \* the target_date handed to Ephemeris.calc, or None
    sdArg,          \* the target_date handed to SolarDiagram.calc, or None
    sd,             \* what SolarDiagram.calc last computed and did
    axisRaw,        \* a raw axis limit, in 1/1000 degree
    axisLimit,      \* the axis limits made of axisRaw
    pc,             \* where main is
    options,        \* default_solar and default_window after the options
    targetDate,     \* main's targetDate
    latitude,       \* config.latitude, in degrees
    effects,        \* what main has written, shown and printed, in order
    raised          \* the exception that ended main

moonVars == <<phase, moonName, moonPicture>>
sunVars  == <<elevation, sunName, sunColor>>
jdVars   == <<date, jd, jdRet>>
geoVars  == <<phi_degrees, geoD, geoH, hauteur, azimut>>
spVars   == <<spDate, declinaison>>
ephVars  == <<almanac, eph, ephResult, ephArg>>
diagVars == <<sdArg, sd>>
axisVars == <<axisRaw, axisLimit>>
mainVars == <<pc, options, targetDate, latitude, effects, raised>>
vars == <<moonVars, sunVars, jdVars, geoVars, spVars, ephVars, mainVars,
         diagVars, axisVars>>

\* A returned string is the sequence of the pieces it is put together from
\* (a literal, or the pieces of an f-string or of a concatenation).  A method
\* that has not been called has returned nothing.
NoValue == <<>>

(***************************************************************************)
(* class MoonPhase                                                         *)
(***************************************************************************)
\* The largest moon-phase index the almanac is taken to hand over: the
\* contract is [0,28), the out-of-contract indices 28..MaxPhase are kept.
MaxPhase == 40

MoonPhase_prefix == "./phases/lune_"

MoonErrorName(p) == <<"Erreur phase non géré : ", p>>

MoonPhase_getName_ge28(p) ==
    IF p < 2 THEN <<"Nouvelle Lune">>
    ELSE IF p < 6 THEN <<"Premier croissant">>
    ELSE IF p < 9 THEN <<"Premier quartier">>
    ELSE IF p < 14 THEN <<"Lune Gibeuse croissante">>
    ELSE IF p < 17 THEN <<"Pleine Lune">>
    ELSE IF p < 22 THEN <<"Lune Gibeuse décroissante">>
    ELSE IF p < 25 THEN <<"Dernier quartier">>
    ELSE IF p < 28 THEN <<"Dernier croissant">>
    ELSE MoonErrorName(p)

MoonPhase_getName_shifted(p) ==
    IF p < 2 \/ p >= 28 THEN <<"Nouvelle Lune">>
    ELSE IF p < 6 THEN <<"Premier croissant">>
    ELSE IF p < 9 THEN <<"Premier quartier">>
    ELSE IF p < 14 THEN <<"Lune Gibeuse croissante">>
    ELSE IF p <= 17 THEN <<"Pleine Lune">>
    ELSE IF p < 22 THEN <<"Lune Gibeuse décroissante">>
    ELSE IF p < 25 THEN <<"Dernier quartier">>
    ELSE IF p < 28 THEN <<"Dernier croissant">>
    ELSE MoonErrorName(p)

MoonPhase_getName(p) ==
    IF p < 2 \/ p >= 28 THEN <<"Nouvelle Lune">>
    ELSE IF p < 6 THEN <<"Premier croissant">>
    ELSE IF p < 9 THEN <<"Premier quartier">>
    ELSE IF p < 14 THEN <<"Lune Gibeuse croissante">>
    ELSE IF p < 17 THEN <<"Pleine Lune">>
    ELSE IF p < 22 THEN <<"Lune Gibeuse décroissante">>
    ELSE IF p < 25 THEN <<"Dernier quartier">>
    ELSE IF p < 28 THEN <<"Dernier croissant">>
    ELSE MoonErrorName(p)

\* getPicture returns self.prefix+image: the pair stands for the
\* concatenation.
MoonPhase_getPicture(p) ==
    LET image ==
        IF p < 2 \/ p >= 28 THEN "00.png"
        ELSE IF p < 6 THEN "01.png"
        ELSE IF p < 9 THEN "02.png"
        ELSE IF p < 14 THEN "03.png"
        ELSE IF p < 17 THEN "04.png"
        ELSE IF p < 22 THEN "05.png"
        ELSE IF p < 25 THEN "06.png"
        ELSE IF p < 28 THEN "07.png"
        ELSE "error.png"
    IN <<MoonPhase_prefix, image>>

MoonIdle == phase = 0 /\ moonName = NoValue /\ moonPicture = NoValue

\* MoonPhase(phase)
MoonInit == phase \in 0..MaxPhase /\ moonName = NoValue /\ moonPicture = NoValue

MoonGetName ==
    /\ moonName' = MoonPhase_getName(phase)
    /\ UNCHANGED <<phase, moonPicture, sunVars, jdVars, geoVars, spVars,
                 ephVars, mainVars,
                 diagVars, axisVars>>

MoonGetPicture ==
    /\ moonPicture' = MoonPhase_getPicture(phase)
    /\ UNCHANGED <<phase, moonName, sunVars, jdVars, geoVars, spVars,
                 ephVars, mainVars,
                 diagVars, axisVars>>

(***************************************************************************)
(* class SunPhase                                                          *)
(***************************************************************************)
\* Elevations are multiples of 1/ElevScale degree.
ElevScale == 10
\* The elevations of the sun, in degrees.
MaxElevation == 90

Elevations == (-MaxElevation * ElevScale)..(MaxElevation * ElevScale)

\* The literals -6.0, -4.0 and 6.0 of getName and getColor.
Deg(x) == x * ElevScale

SunPhase_getName_closed(e) ==
    IF e < Deg(-4) /\ e > Deg(-6) THEN <<"Heure bleue">>
    ELSE IF e < Deg(6) /\ e >= Deg(-4) THEN <<"Heure dorée">>
    ELSE IF e > Deg(6) THEN <<"Jour">>
    ELSE <<"Nuit">>

SunPhase_getName(e) ==
    IF e < Deg(-4) /\ e > Deg(-6) THEN <<"Heure bleue">>
    ELSE IF e < Deg(6) /\ e > Deg(-4) THEN <<"Heure dorée">>
    ELSE IF e > Deg(6) THEN <<"Jour">>
    ELSE <<"Nuit">>

SunPhase_getColor(e) ==
    IF e < Deg(-4) /\ e > Deg(-6) THEN <<"SteelBlue">>
    ELSE IF e < Deg(6) /\ e > Deg(-4) THEN <<"Orange">>
    ELSE IF e > Deg(6) THEN <<"SkyBlue">>
    ELSE <<"CornflowerBlue">>

SunIdle == elevation = 0 /\ sunName = NoValue /\ sunColor = NoValue

\* SunPhase(elevation)
SunInit == elevation \in Elevations /\ sunName = NoValue /\ sunColor = NoValue

SunGetName ==
    /\ sunName' = SunPhase_getName(elevation)
    /\ UNCHANGED <<elevation, sunColor, moonVars, jdVars, geoVars, spVars,
                 ephVars, mainVars,
                 diagVars, axisVars>>

SunGetColor ==
    /\ sunColor' = SunPhase_getColor(elevation)
    /\ UNCHANGED <<elevation, sunName, moonVars, jdVars, geoVars, spVars,
                 ephVars, mainVars,
                 diagVars, axisVars>>

(***************************************************************************)
(* datetime.datetime, as far as the program uses it                        *)
(***************************************************************************)
\* datetime's leap years are those of the proleptic Gregorian calendar.
IsLeap(y) == y % 4 = 0 /\ (y % 100 # 0 \/ y % 400 = 0)

DaysInMonth(y, m) ==
    IF m = 2 THEN (IF IsLeap(y) THEN 29 ELSE 28)
    ELSE IF m \in {4, 6, 9, 11} THEN 30 ELSE 31

\* The arguments datetime.datetime(...) accepts; it raises ValueError on
\* the others.
ValidDateTime(y, m, d, hh, mm, ss) ==
    /\ y \in 1..9999
    /\ m \in 1..12
    /\ d >= 1 /\ d <= DaysInMonth(y, m)
    /\ hh \in 0..23 /\ mm \in 0..59 /\ ss \in 0..59

DateTime(y, m, d, hh, mm, ss) ==
    [year |-> y, month |-> m, day |-> d, hour |-> hh, minute |-> mm,
     second |-> ss]

(***************************************************************************)
(* Python floats in JulianDay                                              *)
(*                                                                         *)
(* A Julian Day between 2^21 = 2097152 (the year 1029) and 2^22 = 4194304  *)
(* (the year 6771) is a double whose unit in the last place is 2^-31 day:  *)
(* it is modelled as days + frac / 2^31 with frac in 0..2^31-1.  The       *)
(* products of setDate and setJulianDay that are truncated (365.25*y,      *)
(* 30.6001*(m+1), (Z-1867216.25)/36524.25, (B-122.1)/365.25, 365.25*C,     *)
(* (B-D)/30.6001, 30.6001*E) are further from an integer than a double's   *)
(* rounding error, or exact, so each truncation is that of the exact       *)
(* quotient.  In setDate the sum JJ+dd is rounded to the nearest multiple  *)
(* of 2^-31; dd = k/86400 day for k whole seconds is never within          *)
(* 1/1350 unit of a rounding tie (86400 = 2^7 * 675 and 675 is odd), so    *)
(* the rounding error of dd itself does not change the result.  From there *)
(* on, F, decimalDay-day, 24.0*F and the two products by 60 need at most   *)
(* 36 bits and are exact.                                                  *)
(***************************************************************************)
\* math.trunc(num/den) for den > 0: towards zero.
Trunc(num, den) ==
    IF num >= 0 THEN num \div den ELSE -((-num) \div den)

\* 0.5 day in units of 2^-31 day.
HalfDay == 2^30

\* The double nearest to k/86400 day, in units of 2^-31 day, for k whole
\* seconds (0 <= k < 86400): k * 2^24 / 675 by long division (12 bits at
\* a time), rounded to nearest.
RoundDayFraction(k) ==
    LET q0 == k \div 675
        r0 == k % 675
        q1 == (r0 * (2^12)) \div 675
        r1 == (r0 * (2^12)) % 675
        q2 == (r1 * (2^12)) \div 675
        r2 == (r1 * (2^12)) % 675
    IN (q0 * (2^24)) + (q1 * (2^12)) + q2 + (IF 2 * r2 > 675 THEN 1 ELSE 0)

MulFraction_rounded(c, f) ==
    LET lo == c * (f % (2^16))
        hi == (c * (f \div (2^16))) + (lo \div (2^16))
        frac == ((hi % (2^15)) * (2^16)) + (lo % (2^16))
    IN [int |-> (hi \div (2^15)) + (IF frac >= HalfDay THEN 1 ELSE 0),
        frac |-> frac]

\* c * f for a fraction f (in units of 2^-31) and a small integer c, exact:
\* the integer part and the fraction of the product, 16 bits at a time.
MulFraction(c, f) ==
    LET lo == c * (f % (2^16))
        hi == (c * (f \div (2^16))) + (lo \div (2^16))
    IN [int |-> hi \div (2^15),
        frac |-> ((hi % (2^15)) * (2^16)) + (lo % (2^16))]

\* x + 0.5 for a float x = [days, frac].
AddHalf(x) ==
    IF x.frac >= HalfDay
    THEN [days |-> x.days + 1, frac |-> x.frac - HalfDay]
    ELSE [days |-> x.days, frac |-> x.frac + HalfDay]

(***************************************************************************)
(* class JulianDay                                                         *)
(***************************************************************************)
\* setJulianDay(JJ): the fields of the object afterwards.
JulianDay_setJulianDay(JJ) ==
    LET JJ1 == AddHalf(JJ)
        Z == JJ1.days
        F == JJ1.frac
        A == IF Z < 2299161 THEN Z
             ELSE LET a == Trunc(4 * Z - 7468865, 146097)
                  IN Z + 1 + a - Trunc(a, 4)
        B == A + 1524
        C == Trunc(20 * B - 2442, 7305)
        D == Trunc(1461 * C, 4)
        E == Trunc(10000 * (B - D), 306001)
        day == B - D - Trunc(306001 * E, 10000)
        month == IF 2 * E < 27 THEN E - 1 ELSE E - 13
        year == IF 2 * month > 5 THEN C - 4716 ELSE C - 4715
        dh == MulFraction(24, F)
        dm == MulFraction(60, dh.frac)
        ds == MulFraction(60, dm.frac)
    IN [JJ |-> JJ,
        decimalDay |-> [days |-> day, frac |-> F],
        day |-> day, month |-> month, year |-> year,
        hour |-> dh.int, minute |-> dm.int, second |-> ds.int]

\* The correction term B of setDate.
GregorianB(d) ==
    IF d.year < 1582 THEN 0
    ELSE LET A == Trunc(d.year, 100) IN 2 - A + Trunc(A, 4)

\* The Julian Day setDate computes with the correction term B and hands to
\* setJulianDay.
SetDateJJWithB(d, B) ==
    LET y == IF d.month > 2 THEN d.year ELSE d.year - 1
        m == IF d.month > 2 THEN d.month ELSE d.month + 12
        \* 1720994.5 + ... + B is N + 0.5
        N == 1720994 + Trunc(1461 * y, 4) + Trunc(306001 * (m + 1), 10000)
             + d.day + B
        dd == RoundDayFraction(3600 * d.hour + 60 * d.minute + d.second)
    IN AddHalf([days |-> N, frac |-> dd])

SetDateJJ_noYearShift(d) ==
    LET m == IF d.month > 2 THEN d.month ELSE d.month + 12
        N == 1720994 + Trunc(1461 * d.year, 4)
             + Trunc(306001 * (m + 1), 10000) + d.day + GregorianB(d)
        dd == RoundDayFraction(3600 * d.hour + 60 * d.minute + d.second)
    IN AddHalf([days |-> N, frac |-> dd])

SetDateJJ(d) == SetDateJJWithB(d, GregorianB(d))

JulianDay_setDate(d) == JulianDay_setJulianDay(SetDateJJ(d))

\* getDate(): the datetime of the fields, or datetime's ValueError.
JulianDay_getDate(j) ==
    IF ValidDateTime(j.year, j.month, j.day, j.hour, j.minute, j.second)
    THEN [kind |-> "datetime",
          value |-> DateTime(j.year, j.month, j.day, j.hour, j.minute,
                             j.second)]
    ELSE [kind |-> "ValueError"]

\* The dates and times of day handed to setDate: every day of the years
\* 1582-YearsAround..1582+YearsAround and of ModernYears, at the times of
\* day made of HoursIn, MinutesIn and SecondsIn.
YearsAround == 2
ModernYears == {1600, 1900, 2000, 2024, 2025, 2100}
Years == ((1582 - YearsAround)..(1582 + YearsAround)) \cup ModernYears
HoursIn == {0, 12, 13, 23}
MinutesIn == {0, 30, 59}
SecondsIn == {0, 1, 59}

InputDates ==
    {DateTime(y, m, d, hh, mm, ss) :
        y \in Years, m \in 1..12, d \in 1..31,
        hh \in HoursIn, mm \in MinutesIn, ss \in SecondsIn}

JDIdle ==
    /\ date = DateTime(2000, 1, 1, 0, 0, 0)
    /\ jd = JulianDay_setJulianDay([days |-> 0, frac |-> 0])
    /\ jdRet = [kind |-> "none"]

\* targetDate is a datetime; jj=JulianDay() is JulianDay(JJ=0).
JDInit ==
    /\ date \in {d \in InputDates :
                   ValidDateTime(d.year, d.month, d.day, d.hour, d.minute,
                                 d.second)}
    /\ jd = JulianDay_setJulianDay([days |-> 0, frac |-> 0])
    /\ jdRet = [kind |-> "none"]

\* jj.setDate(targetDate).  jdRet holds what getDate returned since the
\* object was last set.
JDSetDate ==
    /\ jd' = JulianDay_setDate(date)
    /\ jdRet' = [kind |-> "none"]
    /\ UNCHANGED <<date, moonVars, sunVars, geoVars, spVars,
                 ephVars, mainVars,
                 diagVars, axisVars>>

JDGetDate ==
    /\ jdRet' = JulianDay_getDate(jd)
    /\ UNCHANGED <<date, jd, moonVars, sunVars, geoVars, spVars,
                 ephVars, mainVars,
                 diagVars, axisVars>>

(***************************************************************************)
(* Trigonometry in fixed point                                             *)
(*                                                                         *)
(* Angles handed to the geometry are whole degrees.  A sine, cosine or     *)
(* tangent is the nearest multiple of 1/TrigScale; an angle that comes out *)
(* of asin or atan is known by the whole degree below its magnitude and is *)
(* kept in half degrees as the middle of that cell, 2*a+1 for a cell       *)
(* [a, a+1], and 0 or 2*90 when it is exactly 0 or 90 degrees.             *)
(***************************************************************************)
TrigScale == 10^4

\* round(10000*sin(a)) for a = 0..90 degrees
SinTable == <<
    0, 175, 349, 523, 698, 872, 1045, 1219, 1392, 1564,
    1736, 1908, 2079, 2250, 2419, 2588, 2756, 2924, 3090, 3256,
    3420, 3584, 3746, 3907, 4067, 4226, 4384, 4540, 4695, 4848,
    5000, 5150, 5299, 5446, 5592, 5736, 5878, 6018, 6157, 6293,
    6428, 6561, 6691, 6820, 6947, 7071, 7193, 7314, 7431, 7547,
    7660, 7771, 7880, 7986, 8090, 8192, 8290, 8387, 8480, 8572,
    8660, 8746, 8829, 8910, 8988, 9063, 9135, 9205, 9272, 9336,
    9397, 9455, 9511, 9563, 9613, 9659, 9703, 9744, 9781, 9816,
    9848, 9877, 9903, 9925, 9945, 9962, 9976, 9986, 9994, 9998,
    10000 >>

Abs(x) == IF x < 0 THEN -x ELSE x
Sign(x) == IF x < 0 THEN -1 ELSE IF x > 0 THEN 1 ELSE 0

\* math.sin(np.radians(a))
Sin(a) ==
    LET r == a % 360
    IN IF r <= 90 THEN SinTable[r + 1]
       ELSE IF r <= 180 THEN SinTable[(180 - r) + 1]
       ELSE IF r <= 270 THEN -SinTable[(r - 180) + 1]
       ELSE -SinTable[(360 - r) + 1]

\* math.cos(np.radians(a))
Cos(a) == Sin(a + 90)

\* math.tan(np.radians(a)) for -90 < a < 90
Tan(a) == Trunc(Sin(a) * TrigScale, Cos(a))

\* The whole degree below atan(num/den) for num >= 0 and den >= 0 (89 when
\* den = 0): the number of a in 1..89 with tan(a) <= num/den.
AtanCell(num, den) ==
    Cardinality({a \in 1..89 : Sin(a) * den <= num * Cos(a)})

\* The whole degree below asin(v / TrigScale^2) for 0 <= v < TrigScale^2.
AsinCell(v) == Cardinality({a \in 1..89 : Sin(a) * TrigScale <= v})

\* An angle of x whole degrees, in half degrees.
Angle(x) == 2 * x

(***************************************************************************)
(* class SolarDiagram: calcul_hauteur and calcul_azimut                    *)
(***************************************************************************)
\* sin(D)*sin(phi)+cos(D)*cos(phi)*cos(H), in units of 1/TrigScale^2.
HauteurSine(phi, D, H) ==
    (Sin(D) * Sin(phi)) + (Trunc(Cos(D) * Cos(phi), TrigScale) * Cos(H))

\* calcul_hauteur(D, H): what the call returns, to about half a degree
\* (next to the horizon the fixed point may miss the sign of the height).
calcul_hauteur(phi, D, H) ==
    LET v == HauteurSine(phi, D, H)
    IN IF Abs(v) >= TrigScale * TrigScale
       THEN {[kind |-> "float", value |-> Sign(v) * Angle(90)]}
       ELSE IF v = 0 THEN {[kind |-> "float", value |-> 0]}
       ELSE {[kind |-> "float",
              value |-> Sign(v) * (Angle(AsinCell(Abs(v))) + 1)]}

\* sin(phi)*cos(H)-cos(phi)*tan(D), in units of 1/TrigScale^2.
AzimutDenominator(phi, D, H) == (Sin(phi) * Cos(H)) - (Cos(phi) * Tan(D))

\* The error of AzimutDenominator: below it the sign of the double is not
\* known.
DenTolerance == 4 * TrigScale

\* Line 313: Az, or ZeroDivisionError (Python's float division).  When
\* phi = 0 and D = 0 both products of the denominator are 0.0 and the
\* division raises.  Elsewhere the sign of Az is that of the quotient; next
\* to a zero of the denominator, where the fixed point does not tell its
\* sign, Az is next to 90 or to -90 degrees.
AzimutRaw(phi, D, H) ==
    LET num == Sin(H)
        den == AzimutDenominator(phi, D, H)
        cell == Angle(AtanCell(Abs(num), Abs(den) \div TrigScale)) + 1
    IN IF phi = 0 /\ D = 0 THEN {[kind |-> "ZeroDivisionError"]}
       ELSE IF num = 0 THEN {[kind |-> "float", value |-> 0]}
       ELSE IF Abs(den) <= DenTolerance
       THEN {[kind |-> "float", value |-> cell],
             [kind |-> "float", value |-> -cell]}
       ELSE {[kind |-> "float", value |-> Sign(num) * Sign(den) * cell]}

\* Lines 314-318: the quadrant correction.
AzimutCorrection_noElif(Az, H) ==
    IF Az < 0 /\ H > 0 THEN Az + Angle(180) ELSE Az

AzimutCorrection(Az, H) ==
    IF Az < 0 /\ H > 0 THEN Az + Angle(180)
    ELSE IF Az > 0 /\ H < 0 THEN Az - Angle(180)
    ELSE Az

\* calcul_azimut(D, H): what the call can do; raw is Az as line 313 leaves
\* it, value is what is returned.
calcul_azimut(phi, D, H) ==
    {IF r.kind = "float"
     THEN [kind |-> "float", raw |-> r.value,
           value |-> AzimutCorrection(r.value, H)]
     ELSE r : r \in AzimutRaw(phi, D, H)}

\* The latitudes, declinations and hour angles of the geometry: latitudes
\* every LatStep degrees, hour angles every HourStep degrees and next to
\* 0 and to 180 (the sine of the hour angle is 0.0 at H = 0 only: the
\* doubles of sin(180 degrees) and cos(90 degrees) are not 0.0).
LatStep == 5
HourStep == 5
Latitudes == {l \in -90..90 : l % LatStep = 0}
Declinations == {-23, -20, -10, -5, 0, 5, 10, 20, 23}
HourAngles == {h \in -179..179 : h % HourStep = 0 \/ Abs(h) \in {1, 179}}

\* With D = phi # 0 and H = 0 the sun is at the zenith: the sine of
\* calcul_hauteur is 1 and the denominator of calcul_azimut is 0 up to the
\* last bit of the doubles, and that bit decides whether math.asin raises
\* ValueError and whether the division raises ZeroDivisionError (on an
\* x86-64 CPython the division raises for every whole degree 1..23 but 5
\* and 8, and asin raises for 8 and 12).  The fixed point does not decide
\* it and these arguments are left out.
RoundingDecides(phi, D, H) == D = phi /\ phi # 0 /\ H = 0

GeoIdle ==
    /\ phi_degrees = 0 /\ geoD = 0 /\ geoH = 0
    /\ hauteur = [kind |-> "none"]
    /\ azimut = [kind |-> "none"]

\* SolarDiagram(latitude, timezone), and the arguments of the calls.
GeoInit ==
    /\ phi_degrees \in Latitudes
    /\ geoD \in Declinations
    /\ geoH \in HourAngles
    /\ ~RoundingDecides(phi_degrees, geoD, geoH)
    /\ hauteur = [kind |-> "none"]
    /\ azimut = [kind |-> "none"]

CalculHauteur ==
    /\ hauteur' \in calcul_hauteur(phi_degrees, geoD, geoH)
    /\ UNCHANGED <<phi_degrees, geoD, geoH, azimut, moonVars, sunVars, jdVars, spVars,
                 ephVars, mainVars,
                 diagVars, axisVars>>

CalculAzimut ==
    /\ azimut' \in calcul_azimut(phi_degrees, geoD, geoH)
    /\ UNCHANGED <<phi_degrees, geoD, geoH, hauteur, moonVars, sunVars, jdVars, spVars,
                 ephVars, mainVars,
                 diagVars, axisVars>>

(***************************************************************************)
(* class SolarPosition                                                     *)
(***************************************************************************)
\* maxDeclinaison=23.436, in 1/1000 degree
maxDeclinaison == 23436

\* math.sin of num/den of a turn (2*pi*num/den), to 1/TrigScale: the sine
\* table, linear between two whole degrees.
SinTurn(num, den) ==
    LET whole == (360 * num) \div den
        rest == (360 * num) % den
    IN Sin(whole) + (((Sin(whole + 1) - Sin(whole)) * rest) \div den)

\* datetime.toordinal() less that of January 1 of the same year: the days
\* of the months before, and the days of this month before this one.
RECURSIVE DaysBeforeMonth(_, _)
DaysBeforeMonth(y, m) ==
    IF m = 1 THEN 0 ELSE DaysBeforeMonth(y, m - 1) + DaysInMonth(y, m - 1)

\* (self.date-date0).days
DaysSinceJanuary1(d) == DaysBeforeMonth(d.year, d.month) + (d.day - 1)

SolarPosition_getDeclinaison_anchor(d) ==
    LET j == DaysSinceJanuary1(d)
    IN Trunc(maxDeclinaison * SinTurn(j + 1 + 284, 365), TrigScale)

SolarPosition_getDeclinaison(d) ==
    LET j == DaysSinceJanuary1(d)
    IN Trunc(maxDeclinaison * SinTurn(j + 284, 365), TrigScale)

\* The dates handed to SolarPosition: every day of SolarYears at the times
\* of day SolarTimes.
SolarYears == {2023, 2024, 2025}
SolarTimes == {<<0, 0, 0>>, <<12, 0, 0>>, <<23, 59, 59>>}
SolarDates ==
    {DateTime(y, m, d, t[1], t[2], t[3]) :
        y \in SolarYears, m \in 1..12, d \in 1..31, t \in SolarTimes}

SPIdle ==
    /\ spDate = DateTime(2000, 1, 1, 0, 0, 0)
    /\ declinaison = NoValue

\* SolarPosition(date)
SPInit ==
    /\ spDate \in {d \in SolarDates :
                     ValidDateTime(d.year, d.month, d.day, d.hour, d.minute,
                                   d.second)}
    /\ declinaison = NoValue

GetDeclinaison ==
    /\ declinaison' = <<SolarPosition_getDeclinaison(spDate)>>
    /\ UNCHANGED <<spDate, moonVars, sunVars, jdVars, geoVars,
                 ephVars, mainVars,
                 diagVars, axisVars>>

(***************************************************************************)
(* class Ephemeris.  The almanac is the astral library: what it answers    *)
(* for the location is an input.  Instants are whole seconds counted from  *)
(* midnight of target_date, a day is named by its distance in days from     *)
(* target_date, and a timedelta is a number of seconds.  fails names the   *)
(* first call of calc that raises AstralError.                             *)
(***************************************************************************)
Day == 24 * 60 * 60
AlmanacDays == {-1, 0, 1}

\* location.daylight(date): sunrise and sunset of the day k days away
DaylightIntervals(k) ==
    {<<(k * Day) + 25200, (k * Day) + 61200>>,
     <<(k * Day) + 25139, (k * Day) + 61322>>,
     <<(k * Day) + 25261, (k * Day) + 61078>>}

\* location.night(date): dusk of the day and dawn of the next
NightIntervals == {<<63000, Day + 23400>>, <<63119, Day + 23277>>}

MoonPhasesIn == {0, 15, 27}
AlmanacFailures == {"none", "dawn", "night", "previous"}

\* what location.daylight answers for the day before, the day and the next
DaylightAnswers ==
    {[k \in AlmanacDays |-> IF k = -1 THEN before ELSE IF k = 0 THEN on ELSE after] :
        before \in DaylightIntervals(-1), on \in DaylightIntervals(0),
        after \in DaylightIntervals(1)}

Almanacs ==
    [fails : AlmanacFailures, moon_phase : MoonPhasesIn,
     daylight : DaylightAnswers, night : NightIntervals]

\* Ephemeris.__init__: nothing is computed yet
Ephemeris_init ==
    [target_date |-> NoValue, moon_phase |-> NoValue,
     moon_phase_name |-> NoValue, moon_phase_pict |-> NoValue,
     daylength |-> NoValue, nightlength |-> NoValue,
     day_increase_minutes |-> NoValue]

\* timedelta.total_seconds()/60.0: the whole minutes and the sixtieths left
Minutes(seconds) ==
    [minutes |-> Trunc(seconds, 60),
     sixtieths |-> seconds - (60 * Trunc(seconds, 60))]

\* calc, from the start to the moon phase: target_date is kept, then the
\* times of the day are asked (here dawn may raise) and the moon phase.
Ephemeris_calc_base(e, a, target_date) ==
    [e EXCEPT !.target_date = <<target_date>>,
              !.moon_phase = <<a.moon_phase>>,
              !.moon_phase_name = MoonPhase_getName(a.moon_phase),
              !.moon_phase_pict = MoonPhase_getPicture(a.moon_phase)]

\* daylight=self.location.daylight(date=target_date) ...
Ephemeris_calc_daylength(e, a) ==
    LET daylight == a.daylight[0]
    IN [e EXCEPT !.daylength = <<daylight[2] - daylight[1]>>]

\* night=self.location.night(date=target_date) ...
Ephemeris_calc_nightlength(e, a) ==
    LET night == a.night
    IN [e EXCEPT !.nightlength = <<night[2] - night[1]>>]

Ephemeris_calc_variation_overwrite(e, a) ==
    LET target_date_previous == -1
        daylight == a.daylight[target_date_previous]
        daylength == daylight[2] - daylight[1]
        variation == e.daylength[1] - daylength
    IN [e EXCEPT !.daylength = <<daylength>>,
                 !.day_increase_minutes = <<Minutes(variation)>>]

\* the day before, and the variation of the length of the day
Ephemeris_calc_variation(e, a) ==
    LET target_date_previous == -1
        daylight == a.daylight[target_date_previous]
        daylength == daylight[2] - daylight[1]
        variation == e.daylength[1] - daylength
    IN [e EXCEPT !.day_increase_minutes = <<Minutes(variation)>>]

\* Ephemeris.calc(target_date) for a target_date that is given
Ephemeris_calc(e, a, target_date) ==
    LET e0 == [e EXCEPT !.target_date = <<target_date>>]
        e1 == Ephemeris_calc_base(e, a, target_date)
        e2 == Ephemeris_calc_daylength(e1, a)
        e3 == Ephemeris_calc_nightlength(e2, a)
        e4 == Ephemeris_calc_variation(e3, a)
    IN CASE a.fails = "dawn" -> [obj |-> e0, result |-> "AstralError"]
         [] a.fails = "night" -> [obj |-> e2, result |-> "AstralError"]
         [] a.fails = "previous" -> [obj |-> e3, result |-> "AstralError"]
         [] OTHER -> [obj |-> e4, result |-> "returned"]

\* Ephemeris.calc() and calc(None): self.target_date is now and the almanac
\* is asked for today, then target_date+datetime.timedelta(days=-1) is
\* None+timedelta, a TypeError.
Ephemeris_calc_none(e, a, now) ==
    LET e0 == [e EXCEPT !.target_date = <<now>>]
        e1 == Ephemeris_calc_base(e, a, now)
        e2 == Ephemeris_calc_daylength(e1, a)
        e3 == Ephemeris_calc_nightlength(e2, a)
    IN CASE a.fails = "dawn" -> [obj |-> e0, result |-> "AstralError"]
         [] a.fails = "night" -> [obj |-> e2, result |-> "AstralError"]
         [] OTHER -> [obj |-> e3, result |-> "TypeError"]

EphIdle ==
    /\ almanac = NoValue
    /\ eph = Ephemeris_init
    /\ ephResult = "none"
    /\ ephArg = NoValue

EphTargetDate == DateTime(2025, 6, 21, 12, 0, 0)

\* datetime.datetime.now() at the call
EphNow == DateTime(2025, 6, 21, 12, 0, 0)

\* e=Ephemeris(...), with the answers of the almanac and the argument of
\* calc: a datetime, or None
EphInit ==
    /\ almanac \in Almanacs
    /\ eph = Ephemeris_init
    /\ ephResult = "none"
    /\ ephArg \in {<<EphTargetDate>>, NoValue}

\* e.calc(target_date), once
EphCalc ==
    /\ ephResult = "none"
    /\ LET r == IF ephArg = NoValue
                THEN Ephemeris_calc_none(eph, almanac, EphNow)
                ELSE Ephemeris_calc(eph, almanac, ephArg[1])
       IN /\ eph' = r.obj
          /\ ephResult' = r.result
    /\ UNCHANGED <<almanac, ephArg, moonVars, sunVars, jdVars, geoVars,
                   spVars, mainVars, diagVars, axisVars>>

(***************************************************************************)
(* SolarDiagram.calc and main.  Of SolarDiagram.calc main sees whether it  *)
(* raises or saves the image; of the command line, the two switches it     *)
(* leaves in default_solar and default_window.                             *)
(***************************************************************************)
\* math.sin and math.cos of an angle in 1/1000 degree
SinMilli(md) == SinTurn(md, 360000)
CosMilli(md) == SinTurn(md + 90000, 360000)

\* math.acos(-tan(phi)*tan(maxDeclinaison)) raises ValueError when the
\* product is beyond 1 in size (the cosine of a latitude is never negative,
\* and the tangent of the double next to 90 degrees is about 1.6e16).
MaxHRaises(phi) ==
    Abs(Sin(phi)) * SinMilli(maxDeclinaison)
        > Cos(phi) * CosMilli(maxDeclinaison)

\* The curve of the equinoxes is calcul_azimut(0.0, H) over the hour angles.
EquinoxCurveRaises(phi) ==
    \E H \in HourAngles :
        \E r \in calcul_azimut(phi, 0, H) : r.kind = "ZeroDivisionError"

\* SolarDiagram.calc(target_date, tz): the exception it raises, or "savefig"
\* when it reaches fig.savefig
SolarDiagram_calc(phi) ==
    IF MaxHRaises(phi) THEN "ValueError"
    ELSE IF EquinoxCurveRaises(phi) THEN "ZeroDivisionError"
    ELSE "savefig"

\* self.location.solar_depression=6, in 1/1000 degree
solar_depression == 6000

\* The almanac can raise at the latitudes where, some day of the year, the
\* sun stays less than solar_depression under the horizon all night.
AlmanacMayRaise(lat) ==
    (Abs(lat) * 1000) + maxDeclinaison > 90000 - solar_depression

MainDates ==
    {DateTime(2025, 6, 21, 12, 0, 0), DateTime(2025, 12, 21, 8, 30, 0),
     DateTime(2024, 2, 29, 23, 59, 59)}

MainAlmanacs(lat) ==
    {[fails |-> f, moon_phase |-> 15, daylight |-> d,
      night |-> <<63000, Day + 23400>>] :
        f \in IF AlmanacMayRaise(lat) THEN AlmanacFailures ELSE {"none"},
        d \in {a \in DaylightAnswers :
                 /\ a[0] = <<25200, 61200>>
                 /\ a[1] = <<Day + 25200, Day + 61200>>
                 /\ a[-1] # <<25139 - Day, 61322 - Day>>}}

MainIdle ==
    /\ pc = "idle"
    /\ options = [default_solar |-> FALSE, default_window |-> TRUE]
    /\ targetDate = DateTime(2000, 1, 1, 0, 0, 0)
    /\ latitude = 0
    /\ effects = <<>>
    /\ raised = NoValue

\* main, up to targetDate
MainInit ==
    /\ pc = "julianday"
    /\ options \in [default_solar : BOOLEAN, default_window : BOOLEAN]
    /\ targetDate \in MainDates
    /\ latitude \in Latitudes
    /\ almanac \in MainAlmanacs(latitude)
    /\ eph = Ephemeris_init
    /\ ephResult = "none"
    /\ ephArg = <<targetDate>>
    /\ effects = <<>>
    /\ raised = NoValue

\* jj=JulianDay(); jj.setDate(targetDate)
MainJulianDay ==
    /\ pc = "julianday"
    /\ date' = targetDate
    /\ jd' = JulianDay_setDate(targetDate)
    /\ pc' = "declinaison"
    /\ UNCHANGED <<jdRet, moonVars, sunVars, geoVars, spVars, ephVars,
                   options, targetDate, latitude, effects, raised,
                 diagVars, axisVars>>

\* s=SolarPosition(targetDate); sunDeclinaison=s.getDeclinaison()
MainDeclinaison ==
    /\ pc = "declinaison"
    /\ spDate' = targetDate
    /\ declinaison' = <<SolarPosition_getDeclinaison(targetDate)>>
    /\ pc' = "diagram"
    /\ UNCHANGED <<moonVars, sunVars, jdVars, geoVars, ephVars,
                   options, targetDate, latitude, effects, raised,
                 diagVars, axisVars>>

\* sd=SolarDiagram(config.latitude,sunDeclinaison); sd.calc(targetDate,...)
MainSolarDiagram ==
    /\ pc = "diagram"
    /\ phi_degrees' = latitude
    /\ LET r == SolarDiagram_calc(latitude)
       IN IF r = "savefig"
          THEN /\ effects' = Append(effects, "savefig")
               /\ pc' = "show"
               /\ UNCHANGED raised
          ELSE /\ raised' = <<r>>
               /\ pc' = "raised"
               /\ UNCHANGED effects
    /\ UNCHANGED <<geoD, geoH, hauteur, azimut, moonVars, sunVars, jdVars,
                   spVars, ephVars, options, targetDate, latitude,
                 diagVars, axisVars>>

\* if default_solar: plt.show()
MainShow ==
    /\ pc = "show"
    /\ effects' = IF options.default_solar THEN Append(effects, "show")
                  ELSE effects
    /\ pc' = "ephemeris"
    /\ UNCHANGED <<moonVars, sunVars, jdVars, geoVars, spVars, ephVars,
                   options, targetDate, latitude, raised,
                 diagVars, axisVars>>

\* e=Ephemeris(...); e.calc(targetDate)
MainEphemeris ==
    /\ pc = "ephemeris"
    /\ LET r == Ephemeris_calc(Ephemeris_init, almanac, targetDate)
       IN /\ eph' = r.obj
          /\ ephResult' = r.result
          /\ IF r.result = "returned"
             THEN pc' = "print" /\ UNCHANGED raised
             ELSE pc' = "raised" /\ raised' = <<r.result>>
    /\ UNCHANGED <<almanac, ephArg, moonVars, sunVars, jdVars, geoVars, spVars,
                   options, targetDate, latitude, effects,
                 diagVars, axisVars>>

\* if _verbose: print(e)
MainPrint ==
    /\ pc = "print"
    /\ effects' = Append(effects, "print")
    /\ pc' = "html"
    /\ UNCHANGED <<moonVars, sunVars, jdVars, geoVars, spVars, ephVars,
                   options, targetDate, latitude, raised,
                 diagVars, axisVars>>

\* if default_window: e.toHTML()
MainToHTML ==
    /\ pc = "html"
    /\ effects' = IF options.default_window THEN Append(effects, "toHTML")
                  ELSE effects
    /\ pc' = "done"
    /\ UNCHANGED <<moonVars, sunVars, jdVars, geoVars, spVars, ephVars,
                   options, targetDate, latitude, raised,
                 diagVars, axisVars>>

(***************************************************************************)
(* SolarDiagram.calc: the limits of the axes, the samples of the hour      *)
(* lines, and how the call ends.  Angles are in 1/1000 degree unless said  *)
(* otherwise.                                                              *)
(***************************************************************************)
\* int(maxH/15)*15, for maxH >= 0 in 1/1000 degree: whole degrees
AxisLimit15(r) == Trunc(r, 15 * 1000) * 15

AxisLimit20_ceil(r) == Trunc(r + (20 * 1000) - 1, 20 * 1000) * 20

\* int(maxAz/20+1)*20, for maxAz >= 0 in 1/1000 degree: whole degrees
AxisLimit20(r) == Trunc(r + (20 * 1000), 20 * 1000) * 20

\* The whole degree below asin(num/den) for 0 <= num < den.
AsinRatioCell(num, den) ==
    Cardinality({a \in 1..89 : Sin(a) * den <= num * TrigScale})

\* np.degrees(math.acos(-tan(phi)*tan(maxDeclinaison))), in whole degrees
\* as near as the sine table tells: acos(-p) is 90 degrees plus asin(p), and
\* p = 0 at latitude 0 only.
MaxHRaw(phi) ==
    LET num == (Abs(Sin(phi)) * SinMilli(maxDeclinaison)) \div TrigScale
        den == (Cos(phi) * CosMilli(maxDeclinaison)) \div TrigScale
        cell == AsinRatioCell(num, den)
    IN IF phi = 0 THEN 90
       ELSE IF phi > 0 THEN 90 + cell
       ELSE 89 - cell

\* np.degrees(math.acos(-math.sin(np.radians(maxDeclinaison)/cos(phi)))):
\* the quotient is an angle of maxDeclinaison/cos(phi) degrees, y, and
\* acos(-sin(y)) is 90 degrees plus y as long as y is not over 90 degrees.
MaxAzRaw(phi) == 90000 + Trunc(maxDeclinaison * TrigScale, Cos(phi))

\* The least whole number not under num/den, for den > 0.
Ceiling(num, den) == -((-num) \div den)

\* np.arange(start, stop, step): start + i*step for the
\* ceil((stop-start)/step) first i.
Arange(start, stop, step) ==
    {start + (i * step) : i \in 0..(Ceiling(stop - start, step) - 1)}

\* decl=np.arange(-maxDeclinaison, +maxDeclinaison, 0.05)
DeclinationSweep == Arange(-maxDeclinaison, maxDeclinaison, 50)

DeclinationSweep_closed == Arange(-maxDeclinaison, maxDeclinaison + 50, 50)

\* np.arange(-maxH, maxH+7.5, 7.5), maxH in whole degrees
HourMarks(maxH) == Arange(-(maxH * 1000), (maxH * 1000) + 7500, 7500)

SolarDiagram_new ==
    [target_date |-> NoValue, maxH |-> NoValue, maxAz |-> NoValue,
     hours |-> {}, decl |-> {}, result |-> "none"]

\* SolarDiagram.calc(target_date, tz): self.target_date, the limits and the
\* samples it computed, and in result the exception it raised or "savefig".
\* With target_date None, self.target_date is now and
\* tz.localize(target_date) is handed None: AttributeError.
SolarDiagram_calc_state(phi, target_date, now) ==
    LET started == [SolarDiagram_new EXCEPT
                      !.target_date = IF target_date = NoValue THEN <<now>>
                                      ELSE target_date]
        limits == [started EXCEPT !.maxH = <<AxisLimit15(MaxHRaw(phi) * 1000)>>,
                                  !.maxAz = <<AxisLimit20(MaxAzRaw(phi))>>]
        lines == [limits EXCEPT !.decl = DeclinationSweep,
                                !.hours = HourMarks(limits.maxH[1])]
    IN IF MaxHRaises(phi) THEN [started EXCEPT !.result = "ValueError"]
       ELSE IF SolarDiagram_calc(phi) # "savefig"
       THEN [lines EXCEPT !.result = SolarDiagram_calc(phi)]
       ELSE IF target_date = NoValue
       THEN [lines EXCEPT !.result = "AttributeError"]
       ELSE [lines EXCEPT !.result = "savefig"]

DiagLatitudes == -90..90
DiagDate == DateTime(2025, 6, 21, 12, 0, 0)
DiagNow == DateTime(2025, 6, 21, 12, 0, 0)

DiagIdle ==
    /\ sdArg = NoValue
    /\ sd = SolarDiagram_new

\* sd=SolarDiagram(latitude, ...), and the target_date of the call: a
\* datetime, or None
DiagInit ==
    /\ phi_degrees \in DiagLatitudes
    /\ geoD = 0 /\ geoH = 0
    /\ hauteur = [kind |-> "none"]
    /\ azimut = [kind |-> "none"]
    /\ sdArg \in {<<DiagDate>>, NoValue}
    /\ sd = SolarDiagram_new

\* sd.calc(target_date, tz), once
DiagCalc ==
    /\ sd.result = "none"
    /\ sd' = SolarDiagram_calc_state(phi_degrees, sdArg, DiagNow)
    /\ UNCHANGED <<sdArg, moonVars, sunVars, jdVars, geoVars, spVars,
                   ephVars, mainVars, axisVars>>

\* The raw limits handed to the roundings: 0 to MaxRaw degrees every
\* RawStep/1000 degree, and 1/1000 degree over each multiple of 20 degrees.
RawStep == 500
MaxRaw == 180
AxisRaws == {r \in 0..(MaxRaw * 1000) : r % RawStep = 0 \/ r % 20000 = 1}

AxisIdle ==
    /\ axisRaw = 0
    /\ axisLimit = [maxH |-> NoValue, maxAz |-> NoValue]

AxisInit ==
    /\ axisRaw \in AxisRaws
    /\ axisLimit = [maxH |-> NoValue, maxAz |-> NoValue]

\* maxH=int(maxH/15)*15
AxisMaxH ==
    /\ axisLimit' = [axisLimit EXCEPT !.maxH = <<AxisLimit15(axisRaw)>>]
    /\ UNCHANGED <<axisRaw, moonVars, sunVars, jdVars, geoVars, spVars,
                   ephVars, mainVars, diagVars>>

\* maxAz=int(maxAz/20+1)*20
AxisMaxAz ==
    /\ axisLimit' = [axisLimit EXCEPT !.maxAz = <<AxisLimit20(axisRaw)>>]
    /\ UNCHANGED <<axisRaw, moonVars, sunVars, jdVars, geoVars, spVars,
                   ephVars, mainVars, diagVars>>

(***************************************************************************)
(* The JulianDay object under any sequence of calls.  A Julian Day counts  *)
(* the days elapsed since noon of January 1, -4712: it is not negative.    *)
(***************************************************************************)
\* JulianDay(): __init__ hands its default JJ=0 to setJulianDay
JulianDay_init == JulianDay_setJulianDay([days |-> 0, frac |-> 0])

\* getT(): (self.JJ-2415020.0)/36525, the quotient left as it stands
JulianDay_getT(j) ==
    [kind |-> "float",
     value |-> [days |-> j.JJ.days - 2415020, frac |-> j.JJ.frac,
                over |-> 36525]]

\* __str__(): getDate's datetime in an f-string, or getDate's ValueError
JulianDay_str(j) ==
    LET d == JulianDay_getDate(j)
    IN IF d.kind = "ValueError" THEN d
       ELSE [kind |-> "str", value |-> <<"Julien=", j.JJ, " : ", d.value>>]

\* The Julian Days handed to setJulianDay: the days of ObjectDayNumbers at
\* the fractions of day ObjectFractions (in units of 2^-31 day).
ObjectDayNumbers ==
    {0, 1, 59, 60, 365, 366, 1721057, 1721058, 2299159, 2299160, 2299161,
     2415020, 2451544, 2451545, 2460483}
ObjectFractions ==
    {0, 1, HalfDay - 1, HalfDay, HalfDay + 1, HalfDay + (HalfDay - 1), 123456789,
     1789569707}
ObjectJulianDays ==
    {[days |-> n, frac |-> f] : n \in ObjectDayNumbers, f \in ObjectFractions}

\* The datetimes handed to setDate
ObjectDates ==
    {DateTime(1, 1, 1, 0, 0, 0), DateTime(4, 2, 29, 12, 0, 0),
     DateTime(1581, 12, 31, 23, 59, 59), DateTime(1582, 10, 4, 0, 0, 0),
     DateTime(1582, 10, 15, 0, 0, 1), DateTime(1900, 1, 1, 0, 0, 0),
     DateTime(1900, 3, 1, 6, 30, 0), DateTime(2000, 1, 1, 12, 0, 0),
     DateTime(2024, 2, 29, 13, 30, 1), DateTime(2025, 6, 21, 12, 0, 0),
     DateTime(2025, 12, 31, 23, 59, 59), DateTime(2100, 2, 28, 18, 0, 0)}

\* jj.setJulianDay(JJ)
ObjSetJulianDay ==
    /\ \E JJ \in ObjectJulianDays : jd' = JulianDay_setJulianDay(JJ)
    /\ jdRet' = [kind |-> "none"]
    /\ UNCHANGED <<date, moonVars, sunVars, geoVars, spVars, ephVars,
                   mainVars, diagVars, axisVars>>

\* jj.setDate(date)
ObjSetDate ==
    /\ \E d \in ObjectDates :
          /\ date' = d
          /\ jd' = JulianDay_setDate(d)
    /\ jdRet' = [kind |-> "none"]
    /\ UNCHANGED <<moonVars, sunVars, geoVars, spVars, ephVars, mainVars,
                   diagVars, axisVars>>

\* jj.getDate()
ObjGetDate ==
    /\ jdRet' = JulianDay_getDate(jd)
    /\ UNCHANGED <<date, jd, moonVars, sunVars, geoVars, spVars, ephVars,
                   mainVars, diagVars, axisVars>>

\* jj.getT()
ObjGetT ==
    /\ jdRet' = JulianDay_getT(jd)
    /\ UNCHANGED <<date, jd, moonVars, sunVars, geoVars, spVars, ephVars,
                   mainVars, diagVars, axisVars>>

\* str(jj)
ObjStr ==
    /\ jdRet' = JulianDay_str(jd)
    /\ UNCHANGED <<date, jd, moonVars, sunVars, geoVars, spVars, ephVars,
                   mainVars, diagVars, axisVars>>

(***************************************************************************)
(* The specifications                                                      *)
(***************************************************************************)
InitMoon == MoonInit /\ SunIdle /\ JDIdle /\ GeoIdle /\ SPIdle
    /\ EphIdle /\ MainIdle /\ DiagIdle /\ AxisIdle
NextMoon == MoonGetName \/ MoonGetPicture
SpecMoon == InitMoon /\ [][NextMoon]_vars

InitSun == SunInit /\ MoonIdle /\ JDIdle /\ GeoIdle /\ SPIdle
    /\ EphIdle /\ MainIdle /\ DiagIdle /\ AxisIdle
NextSun == SunGetName \/ SunGetColor
SpecSun == InitSun /\ [][NextSun]_vars

InitJD == JDInit /\ MoonIdle /\ SunIdle /\ GeoIdle /\ SPIdle
    /\ EphIdle /\ MainIdle /\ DiagIdle /\ AxisIdle
NextJD == JDSetDate \/ JDGetDate
SpecJD == InitJD /\ [][NextJD]_vars

InitGeo == GeoInit /\ MoonIdle /\ SunIdle /\ JDIdle /\ SPIdle
    /\ EphIdle /\ MainIdle /\ DiagIdle /\ AxisIdle
NextGeo == CalculHauteur \/ CalculAzimut
SpecGeo == InitGeo /\ [][NextGeo]_vars

InitSolar == SPInit /\ MoonIdle /\ SunIdle /\ JDIdle /\ GeoIdle
    /\ EphIdle /\ MainIdle /\ DiagIdle /\ AxisIdle
NextSolar == GetDeclinaison
SpecSolar == InitSolar /\ [][NextSolar]_vars

InitEph ==
    EphInit /\ MoonIdle /\ SunIdle /\ JDIdle /\ GeoIdle /\ SPIdle /\ MainIdle
    /\ DiagIdle /\ AxisIdle
NextEph == EphCalc
SpecEph == InitEph /\ [][NextEph]_vars

InitMain == MainInit /\ MoonIdle /\ SunIdle /\ JDIdle /\ GeoIdle /\ SPIdle
    /\ DiagIdle /\ AxisIdle
NextMain ==
    \/ MainJulianDay
    \/ MainDeclinaison
    \/ MainSolarDiagram
    \/ MainShow
    \/ MainEphemeris
    \/ MainPrint
    \/ MainToHTML
SpecMain == InitMain /\ [][NextMain]_vars

InitDiag ==
    DiagInit /\ MoonIdle /\ SunIdle /\ JDIdle /\ SPIdle /\ EphIdle /\ MainIdle
    /\ AxisIdle
NextDiag == DiagCalc
SpecDiag == InitDiag /\ [][NextDiag]_vars

InitAxis ==
    AxisInit /\ MoonIdle /\ SunIdle /\ JDIdle /\ GeoIdle /\ SPIdle /\ EphIdle
    /\ MainIdle /\ DiagIdle
NextAxis == AxisMaxH \/ AxisMaxAz
SpecAxis == InitAxis /\ [][NextAxis]_vars

\* jj=JulianDay(), then any calls
InitObj ==
    JDIdle /\ MoonIdle /\ SunIdle /\ GeoIdle /\ SPIdle /\ EphIdle /\ MainIdle
    /\ DiagIdle /\ AxisIdle
NextObj == ObjSetJulianDay \/ ObjSetDate \/ ObjGetDate \/ ObjGetT \/ ObjStr
SpecObj == InitObj /\ [][NextObj]_vars

(***************************************************************************)
(* Claims about MoonPhase (SpecMoon) and SunPhase (SpecSun)                *)
(***************************************************************************)
\* The eight bands as the specification lists them: band i covers
\* [BandStart[i], BandStart[i+1]).
BandStart == <<0, 2, 6, 9, 14, 17, 22, 25, 28>>
BandName == << <<"Nouvelle Lune">>, <<"Premier croissant">>, <<"Premier quartier">>,
              <<"Lune Gibeuse croissante">>, <<"Pleine Lune">>,
              <<"Lune Gibeuse décroissante">>, <<"Dernier quartier">>,
              <<"Dernier croissant">>>>
BandImage == <<"00.png", "01.png", "02.png", "03.png", "04.png", "05.png",
               "06.png", "07.png">>
BandsOf(p) == {i \in 1..8 : BandStart[i] <= p /\ p < BandStart[i + 1]}

\* C3: for every index in [0,28) exactly one of the eight bands holds the
\* index, and getName and getPicture both return that band's name and
\* picture.
C3_MoonBands ==
    phase \in 0..27 =>
        /\ Cardinality(BandsOf(phase)) = 1
        /\ \A i \in BandsOf(phase) :
              /\ moonName # NoValue => moonName = BandName[i]
              /\ moonPicture # NoValue =>
                    moonPicture = <<MoonPhase_prefix, BandImage[i]>>

\* Both methods were called on the index 16, inside the Full Moon band.
C3_Witness ==
    /\ phase = 16
    /\ moonName = <<"Pleine Lune">>
    /\ moonPicture = <<MoonPhase_prefix, "04.png">>

\* C4 as claimed: an index >= 28 gets the error name and the error picture.
C4_Original ==
    phase >= 28 =>
        /\ moonName # NoValue => moonName = MoonErrorName(phase)
        /\ moonPicture # NoValue =>
              moonPicture = <<MoonPhase_prefix, "error.png">>

\* C4 as amended: an index >= 28 is classified as New Moon by both methods,
\* and no index gets the error name or the error picture.
C4_Amended ==
    /\ phase >= 28 =>
          /\ moonName # NoValue => moonName = <<"Nouvelle Lune">>
          /\ moonPicture # NoValue =>
                moonPicture = <<MoonPhase_prefix, "00.png">>
    /\ moonName # MoonErrorName(phase)
    /\ moonPicture # <<MoonPhase_prefix, "error.png">>

\* Both methods were called on the out-of-contract index 28.
C4_Witness ==
    /\ phase = 28
    /\ moonName = <<"Nouvelle Lune">>
    /\ moonPicture = <<MoonPhase_prefix, "00.png">>

\* C5: getName and getColor select the same band, with strict inequalities:
\* Blue Hour iff -6 < e < -4, Golden Hour iff -4 < e < 6, Day iff e > 6,
\* Night iff e <= -6 or e = -4 or e = 6.
C5_SkyBands ==
    LET e == elevation
        blue == Deg(-6) < e /\ e < Deg(-4)
        gold == Deg(-4) < e /\ e < Deg(6)
        day == e > Deg(6)
        night == e <= Deg(-6) \/ e = Deg(-4) \/ e = Deg(6)
    IN /\ sunName # NoValue =>
             /\ sunName = <<"Heure bleue">> <=> blue
             /\ sunName = <<"Heure dorée">> <=> gold
             /\ sunName = <<"Jour">> <=> day
             /\ sunName = <<"Nuit">> <=> night
       /\ sunColor # NoValue =>
             /\ sunColor = <<"SteelBlue">> <=> blue
             /\ sunColor = <<"Orange">> <=> gold
             /\ sunColor = <<"SkyBlue">> <=> day
             /\ sunColor = <<"CornflowerBlue">> <=> night

\* Both methods were called on an elevation of exactly -4.0 degrees.
C5_Witness ==
    /\ elevation = Deg(-4)
    /\ sunName = <<"Nuit">>
    /\ sunColor = <<"CornflowerBlue">>

(***************************************************************************)
(* Claims about JulianDay (SpecJD)                                         *)
(***************************************************************************)
\* d is the calendar day y-m-dd or a later one.
OnOrAfter(d, y, m, dd) ==
    \/ d.year > y
    \/ d.year = y /\ d.month > m
    \/ d.year = y /\ d.month = m /\ d.day >= dd

SecondOfDay(d) == 3600 * d.hour + 60 * d.minute + d.second

\* setDate has acted on the object built by JulianDay().
JDWasSet == jd.JJ # [days |-> 0, frac |-> 0]

\* C1: for every date-time on or after 1582-10-15, setDate followed by
\* getDate returns a date-time of the same year, month and day whose time of
\* day is that of the argument or one second before it.
C1_RoundTrip ==
    (JDWasSet /\ OnOrAfter(date, 1582, 10, 15) /\ jdRet.kind # "none") =>
        /\ jdRet.kind = "datetime"
        /\ jdRet.value.year = date.year
        /\ jdRet.value.month = date.month
        /\ jdRet.value.day = date.day
        /\ SecondOfDay(date) - SecondOfDay(jdRet.value) \in {0, 1}

\* 2025-06-21 13:00:00 came back as 12:59:59 of the same day.
C1_Witness ==
    /\ date = DateTime(2025, 6, 21, 13, 0, 0)
    /\ JDWasSet
    /\ jdRet = [kind |-> "datetime",
                value |-> DateTime(2025, 6, 21, 12, 59, 59)]

\* The correction term the claim states: 0 up to 1582-10-04, Gregorian from
\* 1582-10-15.
ClaimedB(d) ==
    IF ~OnOrAfter(d, 1582, 10, 5) THEN 0
    ELSE LET A == d.year \div 100 IN 2 - A + (A \div 4)

\* C2: setDate applies B = 0 to 1582-10-04 and every earlier date and the
\* Gregorian B to 1582-10-15 and every later date, 1582-10-04 maps to
\* JD 2299159.5, 1582-10-15 to JD 2299160.5, and neither converts back to
\* a day between 1582-10-05 and 1582-10-14.
C2_Boundary ==
    (JDWasSet /\ (~OnOrAfter(date, 1582, 10, 5)
                  \/ OnOrAfter(date, 1582, 10, 15))) =>
        /\ jd.JJ = SetDateJJWithB(date, ClaimedB(date))
        /\ date = DateTime(1582, 10, 4, 0, 0, 0) =>
              jd.JJ = [days |-> 2299159, frac |-> HalfDay]
        /\ date = DateTime(1582, 10, 15, 0, 0, 0) =>
              jd.JJ = [days |-> 2299160, frac |-> HalfDay]
        /\ (date.year = 1582 /\ date.month = 10 /\ date.day \in {4, 15}) =>
              ~(jd.year = 1582 /\ jd.month = 10 /\ jd.day \in 5..14)

(***************************************************************************)
(* Claims about calcul_hauteur and calcul_azimut (SpecGeo)                 *)
(***************************************************************************)
\* C8: calcul_azimut adds 180 iff raw < 0 and H > 0, subtracts 180 iff
\* raw > 0 and H < 0, and otherwise returns raw; the result lies in
\* [-180, 180], in (0, 180] when H > 0 and raw # 0, and in [-180, 0) when
\* H < 0 and raw # 0.
C8_QuadrantCorrection ==
    azimut.kind = "float" =>
        LET raw == azimut.raw
            Az == azimut.value
            H == geoH
        IN /\ raw > Angle(-90) /\ raw < Angle(90)
           /\ Az = raw + Angle(180) <=> (raw < 0 /\ H > 0)
           /\ Az = raw - Angle(180) <=> (raw > 0 /\ H < 0)
           /\ Az = raw <=> ~(raw < 0 /\ H > 0) /\ ~(raw > 0 /\ H < 0)
           /\ Az >= Angle(-180) /\ Az <= Angle(180)
           /\ (H > 0 /\ raw # 0) => (Az > 0 /\ Az <= Angle(180))
           /\ (H < 0 /\ raw # 0) => (Az >= Angle(-180) /\ Az < 0)

\* Latitude -45, declination 0, hour angle -30: the raw azimuth, between 39
\* and 40 degrees, was brought to between -141 and -140 degrees.
C8_Witness ==
    /\ phi_degrees = -45 /\ geoD = 0 /\ geoH = -30
    /\ azimut = [kind |-> "float", raw |-> Angle(39) + 1,
                 value |-> Angle(39) + 1 - Angle(180)]

\* C9: for every latitude, declination and hour angle, calcul_hauteur and
\* calcul_azimut return a value and never raise.
C9_NeverRaise ==
    /\ hauteur.kind \in {"none", "float"}
    /\ azimut.kind \in {"none", "float"}

(***************************************************************************)
(* Claims about SolarPosition (SpecSolar)                                  *)
(***************************************************************************)
\* The number of days of the year of d that come before the day of d.
DayOfYear0(d) ==
    Cardinality({md \in (1..12) \X (1..31) :
                    /\ md[2] <= DaysInMonth(d.year, md[1])
                    /\ \/ md[1] < d.month
                       \/ md[1] = d.month /\ md[2] < d.day})

\* C10 as claimed: getDeclinaison returns maxTilt*sin(2*pi*(j+284)/365.25)
\* for the 0-based day j of the year: (j+284)/365.25 = 4*(j+284)/1461.
C10_Original ==
    declinaison # NoValue =>
        declinaison[1] =
            Trunc(maxDeclinaison
                    * SinTurn(4 * (DayOfYear0(spDate) + 284), 1461),
                  TrigScale)

\* C10 as amended: getDeclinaison returns maxTilt*sin(2*pi*(j+284)/365.0)
\* for the 0-based day j of the year, whatever the time of day.
C10_Amended ==
    declinaison # NoValue =>
        declinaison[1] =
            Trunc(maxDeclinaison * SinTurn(DayOfYear0(spDate) + 284, 365),
                  TrigScale)

\* On 2025-03-23 at noon, day 81 of the year, (j+284)/365 is one whole turn
\* and the declination returned is 0.
C10_Witness ==
    /\ spDate = DateTime(2025, 3, 23, 12, 0, 0)
    /\ declinaison = <<0>>

(***************************************************************************)
(* Claims about Ephemeris.calc (SpecEph) and main (SpecMain)               *)
(***************************************************************************)
\* end minus start of an interval of the almanac, in seconds
Length(interval) == interval[2] - interval[1]

\* C6: after Ephemeris.calc succeeds, daylength is end minus start of the
\* daylight interval of target_date, nightlength that of its night interval,
\* and day_increase_minutes is daylength of target_date less daylength of
\* the day before, in seconds, divided by 60; the stored daylength is still
\* that of target_date.
C6_DayLengths ==
    ephResult = "returned" =>
        /\ eph.daylength = <<Length(almanac.daylight[0])>>
        /\ eph.nightlength = <<Length(almanac.night)>>
        /\ LET m == eph.day_increase_minutes[1]
               backward == Length(almanac.daylight[0])
                             - Length(almanac.daylight[-1])
           IN /\ (60 * m.minutes) + m.sixtieths = backward
              /\ Abs(m.sixtieths) < 60
              /\ m.minutes * backward >= 0
              /\ m.sixtieths * backward >= 0

\* calc has succeeded on a day of 35817 s that follows one of 36183 s and
\* comes before one of 36000 s: the day is 366 s, 6.1 minutes, shorter.
C6_Witness ==
    /\ ephResult = "returned"
    /\ Length(almanac.daylight[-1]) = 36183
    /\ Length(almanac.daylight[0]) = 35817
    /\ Length(almanac.daylight[1]) = 36000
    /\ eph.daylength = <<35817>>
    /\ eph.day_increase_minutes = <<[minutes |-> -6, sixtieths |-> -6]>>

\* C7: in every run of main, if Ephemeris.calc fails then the image of the
\* solar diagram has not been saved and toHTML is not called.
C7_NoPartialOutput ==
    ephResult = "AstralError" =>
        /\ \A i \in 1..Len(effects) : effects[i] # "savefig"
        /\ \A i \in 1..Len(effects) : effects[i] # "toHTML"

(***************************************************************************)
(* Claims about SolarDiagram.calc (SpecDiag, SpecAxis) and about calc with *)
(* no target_date (SpecEph)                                                *)
(***************************************************************************)
\* C11: Ephemeris.calc and SolarDiagram.calc called with target_date None
\* end as the same call with the current date-time ends, with the same
\* results.
C11_NoneIsNow ==
    /\ (ephArg = NoValue /\ ephResult # "none") =>
          LET r == Ephemeris_calc(Ephemeris_init, almanac, EphNow)
          IN ephResult = r.result /\ eph = r.obj
    /\ (sdArg = NoValue /\ sd.result # "none") =>
          sd = SolarDiagram_calc_state(phi_degrees, <<DiagNow>>, DiagNow)

\* C12 as claimed: maxAz is the least multiple of 20 that is not under the
\* raw value, so a raw value that is a multiple of 20 is kept.
C12_Original ==
    axisLimit.maxAz # NoValue =>
        LET limit == axisLimit.maxAz[1]
        IN /\ limit % 20 = 0
           /\ limit * 1000 >= axisRaw
           /\ (limit - 20) * 1000 < axisRaw

\* C12 as amended: maxAz is the least multiple of 20 that is over the raw
\* value, so a raw value that is a multiple of 20 is raised by 20.
C12_Amended ==
    axisLimit.maxAz # NoValue =>
        LET limit == axisLimit.maxAz[1]
        IN /\ limit % 20 = 0
           /\ limit * 1000 > axisRaw
           /\ (limit - 20) * 1000 <= axisRaw

\* The raw value 120 has been rounded to 140.
C12_Witness ==
    /\ axisRaw = 120000
    /\ axisLimit.maxAz = <<140>>

\* C13: the declinations sampled for the hour lines include -maxTilt and
\* +maxTilt.
C13_ClosedSweep ==
    sd.result \notin {"none", "ValueError"} =>
        /\ -maxDeclinaison \in sd.decl
        /\ maxDeclinaison \in sd.decl

\* C15: at every latitude from -90 to 90 SolarDiagram.calc computes maxH and
\* maxAz without raising.
C15_LimitsNeverRaise ==
    sd.result # "none" =>
        /\ sd.result # "ValueError"
        /\ sd.maxH # NoValue
        /\ sd.maxAz # NoValue

(***************************************************************************)
(* Claims about the order of the Julian Days of setDate (SpecJD)           *)
(***************************************************************************)
\* d is one of the days 1582-10-05 to 1582-10-14, which no calendar has.
InCalendarGap(d) == d.year = 1582 /\ d.month = 10 /\ d.day \in 5..14

\* The civil day after that of d, at the same time of day: 1582-10-15
\* comes after 1582-10-04.
NextCivilDay(d) ==
    IF d.year = 1582 /\ d.month = 10 /\ d.day = 4 THEN [d EXCEPT !.day = 15]
    ELSE IF d.day < DaysInMonth(d.year, d.month)
    THEN [d EXCEPT !.day = d.day + 1]
    ELSE IF d.month < 12 THEN [d EXCEPT !.month = d.month + 1, !.day = 1]
    ELSE [d EXCEPT !.year = d.year + 1, !.month = 1, !.day = 1]

\* The Julian Day x is before the Julian Day y.
JJBefore(x, y) == x.days < y.days \/ (x.days = y.days /\ x.frac < y.frac)

\* C14: the Julian Day setDate computes for a civil date-time is before the
\* one it computes for every later time of the same day, and exactly one day
\* before the one it computes for the next civil day at the same time.
C14_StrictlyIncreasing ==
    (JDWasSet /\ ~InCalendarGap(date)) =>
        /\ \A hh \in HoursIn, mm \in MinutesIn, ss \in SecondsIn :
              LET later == [date EXCEPT !.hour = hh, !.minute = mm,
                                        !.second = ss]
              IN SecondOfDay(date) < SecondOfDay(later) =>
                    JJBefore(jd.JJ, SetDateJJ(later))
        /\ SetDateJJ(NextCivilDay(date))
              = [days |-> jd.JJ.days + 1, frac |-> jd.JJ.frac]

(***************************************************************************)
(* Claims about the state of the JulianDay object (SpecObj)                *)
(***************************************************************************)
\* The leap years of the Gregorian calendar among the years 1..n.
LeapYearsThrough(n) == (n \div 4) - (n \div 100) + (n \div 400)

\* The days of month m of year y, in the Gregorian calendar or in the
\* Julian one, where every fourth year is a leap year.
CalendarDaysInMonth(y, m, gregorian) ==
    IF m = 2
    THEN (IF (IF gregorian THEN IsLeap(y) ELSE y % 4 = 0) THEN 29 ELSE 28)
    ELSE IF m \in {4, 6, 9, 11} THEN 30 ELSE 31

RECURSIVE CalendarDaysBefore(_, _, _)
CalendarDaysBefore(y, m, gregorian) ==
    IF m = 1 THEN 0
    ELSE CalendarDaysBefore(y, m - 1, gregorian)
           + CalendarDaysInMonth(y, m - 1, gregorian)

\* The number of the civil day y-m-d, counted day by day: from
\* 2000-01-01, which is day 2451545, in the Gregorian calendar, and from
\* -4712-01-01, which is day 0, in the Julian one.
CivilDayNumber(y, m, d, gregorian) ==
    IF gregorian
    THEN 2451545 + (365 * (y - 2000))
           + (LeapYearsThrough(y - 1) - LeapYearsThrough(1999))
           + CalendarDaysBefore(y, m, TRUE) + (d - 1)
    ELSE (365 * (y + 4712)) + ((y + 4712 + 3) \div 4)
           + CalendarDaysBefore(y, m, FALSE) + (d - 1)

\* The whole seconds in f/2^31 day: 86400*f/2^31 is 675*f/2^24.
SecondsIn31(f) ==
    ((675 * (f \div (2^12))) + ((675 * (f % (2^12))) \div (2^12))) \div (2^12)

\* The fields are the civil day and the time of day of the stored JJ: the
\* day that begins at JJ + 0.5, Gregorian from day 2299161 on.
FieldsMatchJJ ==
    LET noon == AddHalf(jd.JJ)
        gregorian == noon.days >= 2299161
    IN /\ jd.month \in 1..12
       /\ jd.day \in 1..31
       /\ jd.hour \in 0..23
       /\ jd.minute \in 0..59
       /\ jd.second \in 0..59
       /\ jd.day <= CalendarDaysInMonth(jd.year, jd.month, gregorian)
       /\ CivilDayNumber(jd.year, jd.month, jd.day, gregorian) = noon.days
       /\ (3600 * jd.hour) + (60 * jd.minute) + jd.second
             = SecondsIn31(noon.frac)

\* C16: after construction and after any calls of setJulianDay and setDate
\* the fields year to second are the calendar conversion of the stored JJ,
\* within their ranges, and getT, getDate and __str__ change neither JJ nor
\* a field.
C16_StateConsistency ==
    /\ []FieldsMatchJJ
    /\ [][(ObjGetDate \/ ObjGetT \/ ObjStr) => jd' = jd]_vars

\* setDate(2024-02-29 13:30:01) then str(): the object holds JJ 2460370.0625
\* and a bit, and the fields 2024-02-29 13:30:00.
C16_Witness ==
    /\ date = DateTime(2024, 2, 29, 13, 30, 1)
    /\ jd.JJ.days = 2460370
    /\ jd.year = 2024 /\ jd.month = 2 /\ jd.day = 29
    /\ jd.hour = 13 /\ jd.minute = 30 /\ jd.second = 0
    /\ jdRet.kind = "str"

=============================================================================
